---- MODULE Spec2Model ----
(***************************************************************************)
(* Model of src/etl_app/etl_pipeline.py: the paginated fetch / upsert /     *)
(* aggregate / ledger pipeline for FEMA public-assistance projects.        *)
(*                                                                         *)
(* Python values are tagged records so that values of different Python     *)
(* types can be compared: an int, a str, a float NaN / NaT, and None (SQL   *)
(* NULL once it reaches the store).                                        *)
(***************************************************************************)
EXTENDS Integers, Sequences, FiniteSets, TLC

IntV(n) == [k |-> "int", n |-> n, s |-> ""]
StrV(s) == [k |-> "str", n |-> 0, s |-> s]
NaN     == [k |-> "nan", n |-> 0, s |-> ""]
None    == [k |-> "none", n |-> 0, s |-> ""]

(* pd.isna(value): true of None, NaN and NaT *)
IsNa(v) == v.k \in {"nan", "none"}

Range(f) == {f[i] : i \in DOMAIN f}

RECURSIVE SumSeq(_)
SumSeq(q) == IF q = <<>> THEN 0 ELSE Head(q) + SumSeq(Tail(q))

(***************************************************************************)
(* generate_hash.  A record is a Python dict: a sequence of items          *)
(* [key, value] in insertion order.                                        *)
(***************************************************************************)
(* str(n) for a natural number *)
RECURSIVE IntText(_)
IntText(n) ==
  IF n < 10 THEN SubSeq("0123456789", n + 1, n + 1)
  ELSE IntText(n \div 10) \o SubSeq("0123456789", (n % 10) + 1, (n % 10) + 1)

(* the JSON text of the value of a field; a value json cannot serialize    *)
(* (a Timestamp, or the NaT of a datetime column) goes through default=str *)
(* and is written as the string of its str()                               *)
JsonValue(key, v) ==
  CASE v.k = "int" -> IntText(v.n)
    [] v.k = "str" -> "\"" \o v.s \o "\""
    [] v.k = "date" -> "\"" \o v.s \o " 00:00:00" \o "\""
    [] v.k = "nan" -> IF key = "declaration_date" THEN "\"NaT\"" ELSE "NaN"
    [] v.k = "none" -> "null"

(* the field names in the order sort_keys=True puts them *)
SortedKeys ==
  <<"damage_category_descrip", "declaration_date", "disaster_number",
    "hash_value", "project_amount", "project_size", "pw_number",
    "state_abbreviation">>

ItemsKeepOrder(items) == items

(* the items of a dict sorted by key *)
SortItems(items) ==
  LET present == SelectSeq(SortedKeys,
                   LAMBDA k : \E i \in DOMAIN items : items[i].key = k)
  IN [j \in DOMAIN present |->
        items[CHOOSE i \in DOMAIN items : items[i].key = present[j]]]

RECURSIVE JoinItems(_)
JoinItems(items) ==
  IF items = <<>> THEN ""
  ELSE "\"" \o Head(items).key \o "\": " \o JsonValue(Head(items).key, Head(items).value)
       \o (IF Len(items) > 1 THEN ", " ELSE "") \o JoinItems(Tail(items))

(* json.dumps(record, sort_keys=True, default=str) *)
json_dumps(record) == "{" \o JoinItems(SortItems(record)) \o "}"

(* hashlib.md5(text).hexdigest(): the digest is named by the text it is   *)
(* computed from, so two texts of the model never collide                  *)
md5(text) == [md5_of |-> text]

generate_hash(record) == md5(json_dumps(record))

(***************************************************************************)
(* clean_record_for_insertion                                              *)
(***************************************************************************)
field_max_lengths ==
  [incident_type |-> 100, pw_number |-> 50, application_title |-> 500,
   applicant_id |-> 50, damage_category_code |-> 10,
   damage_category_descrip |-> 255, project_status |-> 50,
   project_process_step |-> 100, project_size |-> 50, county |-> 100,
   county_code |-> 10, state_abbreviation |-> 10, state_number_code |-> 10,
   gm_project_id |-> 50, gm_applicant_id |-> 50]

SentinelTokens == {"NaT", "nan", "None", ""}

CleanValueKeepsSentinels(key, value) ==
  IF IsNa(value) THEN None
  ELSE IF value.k = "str" /\ key \in DOMAIN field_max_lengths
       THEN IF Len(value.s) > field_max_lengths[key]
            THEN StrV(SubSeq(value.s, 1, field_max_lengths[key]))
            ELSE value
       ELSE value

CleanValueNoTruncation(key, value) ==
  IF IsNa(value) \/ (value.k = "str" /\ value.s \in SentinelTokens)
  THEN None
  ELSE value

CleanValue(key, value) ==
  IF IsNa(value) \/ (value.k = "str" /\ value.s \in SentinelTokens)
  THEN None
  ELSE IF value.k = "str" /\ key \in DOMAIN field_max_lengths
       THEN IF Len(value.s) > field_max_lengths[key]
            THEN StrV(SubSeq(value.s, 1, field_max_lengths[key]))
            ELSE value
       ELSE value

clean_record_for_insertion(record) ==
  [key \in DOMAIN record |-> CleanValue(key, record[key])]

(***************************************************************************)
(* fetch_public_assistance_data: the pure part (DataFrame construction,    *)
(* column renaming, date and numeric coercion).  A page is run-length       *)
(* encoded: a sequence of runs [rec, n], n consecutive copies of rec.      *)
(***************************************************************************)
column_mapping ==
  [disasterNumber |-> "disaster_number", declarationDate |-> "declaration_date",
   incidentType |-> "incident_type", pwNumber |-> "pw_number",
   applicationTitle |-> "application_title", applicantId |-> "applicant_id",
   damageCategoryCode |-> "damage_category_code",
   damageCategoryDescrip |-> "damage_category_descrip",
   projectStatus |-> "project_status",
   projectProcessStep |-> "project_process_step",
   projectSize |-> "project_size", county |-> "county",
   countyCode |-> "county_code", stateAbbreviation |-> "state_abbreviation",
   stateNumberCode |-> "state_number_code", projectAmount |-> "project_amount",
   federalShareObligated |-> "federal_share_obligated",
   totalObligated |-> "total_obligated",
   lastObligationDate |-> "last_obligation_date",
   firstObligationDate |-> "first_obligation_date",
   mitigationAmount |-> "mitigation_amount", gmProjectId |-> "gm_project_id",
   gmApplicantId |-> "gm_applicant_id", lastRefresh |-> "last_refresh",
   hash |-> "hash_value"]

date_fields == {"declaration_date", "last_obligation_date",
                "first_obligation_date", "last_refresh"}

numeric_fields == {"project_amount", "federal_share_obligated",
                   "total_obligated", "mitigation_amount"}

EmptyDataFrame == [columns |-> {}, rows |-> <<>>]

(* df.empty: either axis has length 0 *)
DfEmpty(d) == d.rows = <<>> \/ d.columns = {}

(* len(df) *)
DfLen(d) == SumSeq([i \in DOMAIN d.rows |-> d.rows[i].n])

(* pd.DataFrame(data): the columns are the union of the records' keys, a  *)
(* key a record lacks is filled with NaN                                   *)
DataFrame(data) ==
  LET cols == UNION {DOMAIN data[i].rec : i \in DOMAIN data}
  IN [columns |-> cols,
      rows |-> [i \in DOMAIN data |->
                 [rec |-> [c \in cols |-> IF c \in DOMAIN data[i].rec
                                          THEN data[i].rec[c] ELSE NaN],
                  n |-> data[i].n]]]

RenameColumn(c) == IF c \in DOMAIN column_mapping THEN column_mapping[c] ELSE c

(* df.rename(columns=column_mapping) *)
DfRename(d) ==
  LET cols == {RenameColumn(c) : c \in d.columns}
      src(c2) == CHOOSE c \in d.columns : RenameColumn(c) = c2
  IN [columns |-> cols,
      rows |-> [i \in DOMAIN d.rows |->
                 [rec |-> [c2 \in cols |-> d.rows[i].rec[src(c2)]],
                  n |-> d.rows[i].n]]]

Digits == {"0", "1", "2", "3", "4", "5", "6", "7", "8", "9"}

DigitVal(ch) == CHOOSE v \in 0..9 : SubSeq("0123456789", v + 1, v + 1) = ch

IsNumericString(s) ==
  Len(s) > 0 /\ \A i \in 1..Len(s) : SubSeq(s, i, i) \in Digits

RECURSIVE ParseNat(_)
ParseNat(s) ==
  IF Len(s) = 0 THEN 0
  ELSE 10 * ParseNat(SubSeq(s, 1, Len(s) - 1)) + DigitVal(SubSeq(s, Len(s), Len(s)))

(* pd.to_numeric(value, errors='coerce') followed by fillna(0) *)
ToNumericFillna(v) ==
  IF v.k = "int" THEN v
  ELSE IF v.k = "str" /\ IsNumericString(v.s) THEN IntV(ParseNat(v.s))
  ELSE IntV(0)

IsDateString(s) ==
  /\ Len(s) = 10
  /\ \A i \in {1, 2, 3, 4, 6, 7, 9, 10} : SubSeq(s, i, i) \in Digits
  /\ SubSeq(s, 5, 5) = "-" /\ SubSeq(s, 8, 8) = "-"

(* pd.to_datetime(value, errors='coerce'): unparsable values become NaT *)
ToDatetime(v) ==
  IF v.k = "str" /\ IsDateString(v.s) THEN [k |-> "date", n |-> 0, s |-> v.s]
  ELSE IF v.k = "date" THEN v
  ELSE NaN

CoerceValue(c, v) ==
  IF c \in date_fields THEN ToDatetime(v)
  ELSE IF c \in numeric_fields THEN ToNumericFillna(v)
  ELSE v

DfCoerce(d) ==
  [columns |-> d.columns,
   rows |-> [i \in DOMAIN d.rows |->
              [rec |-> [c \in d.columns |-> CoerceValue(c, d.rows[i].rec[c])],
               n |-> d.rows[i].n]]]

(* the page the fetcher returns for a decoded response body `data` *)
NormalizePage(data) ==
  IF data = <<>> THEN EmptyDataFrame ELSE DfCoerce(DfRename(DataFrame(data)))

(***************************************************************************)
(* batch_insert: the pure part (filtering against the schema, cleaning,    *)
(* choice of the conflict keys and of the statement's columns).            *)
(***************************************************************************)
unique_keys == <<"disaster_number", "pw_number">>

FilterKeepsAll(record, existing_columns) == record

FilterWithoutStamps(record, existing_columns) ==
  [key \in DOMAIN record \cap existing_columns |-> record[key]]

FilterRecord(record, existing_columns) ==
  LET kept == [key \in DOMAIN record \cap existing_columns |-> record[key]]
      stamps == {c \in {"created_at", "updated_at"} :
                   c \in existing_columns /\ c \notin DOMAIN kept}
  IN [c \in DOMAIN kept \cup stamps |-> IF c \in stamps THEN None ELSE kept[c]]

(* cleaned: one run per run of the page *)
Cleaned(records, existing_columns) ==
  [i \in DOMAIN records |->
     [rec |-> clean_record_for_insertion(
                FilterRecord(records[i].rec, existing_columns)),
      n |-> records[i].n]]

ValidKeysAnyOne(existing_columns) ==
  IF \A i \in DOMAIN unique_keys : unique_keys[i] \in existing_columns
  THEN unique_keys ELSE <<>>

valid_unique_keys(existing_columns) ==
  SelectSeq(unique_keys, LAMBDA key : key \in existing_columns)

(* columns = cleaned[0].keys() *)
Columns(cleaned) == DOMAIN cleaned[1].rec

RejectedOnlyEmpty(records, existing_columns) == records = <<>>

(* the batch is turned away with return value 0 and no INSERT *)
Rejected(records, existing_columns) ==
  \/ records = <<>>
  \/ valid_unique_keys(existing_columns) = <<>>
  \/ Columns(Cleaned(records, existing_columns)) = {}

(***************************************************************************)
(* The store.  A table is a bag of rows (a function from rows to their     *)
(* number of copies); a row gives a value to every column of the table.    *)
(***************************************************************************)
EmptyBag == [x \in {} |-> 0]

BagAdd(b, e, n) ==
  IF e \in DOMAIN b THEN [b EXCEPT ![e] = @ + n]
  ELSE [x \in DOMAIN b \cup {e} |-> IF x = e THEN n ELSE b[x]]

BagWithout(b, e) == [x \in DOMAIN b \ {e} |-> b[x]]

RECURSIVE BagSize(_)
BagSize(b) ==
  IF DOMAIN b = {} THEN 0
  ELSE LET e == CHOOSE x \in DOMAIN b : TRUE IN b[e] + BagSize(BagWithout(b, e))

(* One execution of the INSERT ... ON CONFLICT statement of batch_insert   *)
(* with parameters `rec`.  A column the statement does not name takes the  *)
(* column default, NULL.  A NULL in a conflict column never conflicts.     *)
NewRow(schema_, columns, rec) ==
  [c \in schema_ |-> IF c \in columns THEN rec[c] ELSE None]

HasNullKey(row, conflict) == \E k \in conflict : row[k] = None

ConflictRows(t, row, conflict) ==
  {r \in DOMAIN t : \A k \in conflict : r[k] = row[k] /\ row[k] # None}

UpsertAlwaysInserts(t, schema_, columns, conflict, rec, n) ==
  BagAdd(t, NewRow(schema_, columns, rec), n)

UpsertKeepsStored(t, schema_, columns, conflict, rec, n) ==
  LET row == NewRow(schema_, columns, rec)
      hit == ConflictRows(t, row, conflict)
  IN IF hit = {} THEN BagAdd(t, row, IF HasNullKey(row, conflict) THEN n ELSE 1)
     ELSE t

(* n consecutive executions with the same parameters *)
Upsert(t, schema_, columns, conflict, rec, n) ==
  LET row == NewRow(schema_, columns, rec)
      hit == ConflictRows(t, row, conflict)
  IN IF hit = {}
     THEN BagAdd(t, row, IF HasNullKey(row, conflict) THEN n ELSE 1)
     ELSE LET old == CHOOSE r \in hit : TRUE
              new == [c \in schema_ |->
                        IF c \in columns \ conflict THEN rec[c] ELSE old[c]]
          IN BagAdd(BagWithout(t, old), new, 1)

(* the statement is refused by the store whatever the connection does:    *)
(* an empty SET clause is a syntax error, and a NULL in a key column is    *)
(* refused when the key columns are declared NOT NULL                      *)
StmtRefused(schema_, nullable, columns, conflict, rec) ==
  \/ columns \ conflict = {}
  \/ ~nullable /\ HasNullKey(NewRow(schema_, columns, rec), conflict)

(* cursor.executemany(sql, cleaned) up to and excluding run number `upto` *)
RECURSIVE ExecuteMany(_, _, _, _, _, _)
ExecuteMany(t, schema_, columns, conflict, cleaned, upto) ==
  IF upto <= 1 THEN t
  ELSE Upsert(ExecuteMany(t, schema_, columns, conflict, cleaned, upto - 1),
              schema_, columns, conflict,
              cleaned[upto - 1].rec, cleaned[upto - 1].n)

(* the first run of `cleaned` the store refuses, Len + 1 if none *)
FirstRefused(schema_, nullable, columns, conflict, cleaned) ==
  LET bad == {i \in DOMAIN cleaned :
                StmtRefused(schema_, nullable, columns, conflict, cleaned[i].rec)}
  IN IF bad = {} THEN Len(cleaned) + 1
     ELSE CHOOSE i \in bad : \A j \in bad : i <= j

(***************************************************************************)
(* populate_fact_tables: the two INSERT ... SELECT queries.                *)
(***************************************************************************)
LowThreshold == 10000
HighThreshold == 100000

(* the columns of public_assistance_projects the two queries read *)
AggColumns == {"disaster_number", "state_abbreviation", "declaration_date",
               "project_amount", "damage_category_descrip", "project_size"}

RECURSIVE SumRows(_, _, _)
SumRows(t, rows, col) ==
  IF rows = {} THEN 0
  ELSE LET r == CHOOSE x \in rows : TRUE
       IN (IF col = "" THEN t[r] ELSE t[r] * r[col].n)
          + SumRows(t, rows \ {r}, col)

MaxAmount(rows) ==
  IF rows = {} THEN None
  ELSE (CHOOSE r \in rows :
          \A q \in rows : q["project_amount"].n <= r["project_amount"].n)["project_amount"]

MinDate(rows) ==
  IF rows = {} THEN None
  ELSE LET ds == {r["declaration_date"].s : r \in rows}
           Leq(a, b) == \/ a = b
                        \/ \E i \in 1..10 :
                             /\ SubSeq(a, 1, i - 1) = SubSeq(b, 1, i - 1)
                             /\ DigitVal(SubSeq(a, i, i)) < DigitVal(SubSeq(b, i, i))
       IN [k |-> "date", n |-> 0,
           s |-> CHOOSE d \in ds : \A e \in ds : Leq(d, e)]

(* SELECT ... FROM public_assistance_projects GROUP BY disaster_number,    *)
(* state_abbreviation (NULLs form one group)                               *)
MetricsQuery(t) ==
  LET groups == {<<r["disaster_number"], r["state_abbreviation"]>> : r \in DOMAIN t}
      members(g) == {r \in DOMAIN t : /\ r["disaster_number"] = g[1]
                                      /\ r["state_abbreviation"] = g[2]}
      valued(g) == {r \in members(g) : r["project_amount"] # None}
      sized(g, size) == {r \in members(g) : r["project_size"] = StrV(size)}
  IN {[disaster_number |-> g[1],
       state_abbreviation |-> g[2],
       declaration_date |->
         MinDate({r \in members(g) : r["declaration_date"] # None}),
       total_projects |-> SumRows(t, members(g), ""),
       total_funding |-> IF valued(g) = {} THEN None
                         ELSE IntV(SumRows(t, valued(g), "project_amount")),
       avg_project_amount |->
         IF valued(g) = {} THEN <<>>
         ELSE <<SumRows(t, valued(g), "project_amount"), SumRows(t, valued(g), "")>>,
       max_project_amount |-> MaxAmount(valued(g)),
       small_projects |-> SumRows(t, sized(g, "Small"), ""),
       medium_projects |-> SumRows(t, sized(g, "Medium"), ""),
       large_projects |-> SumRows(t, sized(g, "Large"), "")] : g \in groups}

SampleRow(r) ==
  [disaster_number |-> r["disaster_number"],
   state_abbreviation |-> r["state_abbreviation"],
   declaration_date |-> r["declaration_date"],
   project_amount |-> r["project_amount"],
   damage_category |-> r["damage_category_descrip"],
   project_size |-> r["project_size"],
   is_large_project |-> r["project_amount"].n > HighThreshold,
   amount_category |-> IF r["project_amount"].n < LowThreshold THEN "Small"
                       ELSE IF r["project_amount"].n < HighThreshold THEN "Medium"
                       ELSE "Large"]

RECURSIVE SamplesOf(_, _)
SamplesOf(t, rows) ==
  IF rows = {} THEN EmptyBag
  ELSE LET r == CHOOSE x \in rows : TRUE
       IN BagAdd(SamplesOf(t, rows \ {r}), SampleRow(r), t[r])

SamplesQueryAll(t) == SamplesOf(t, DOMAIN t)

(* SELECT ... FROM public_assistance_projects WHERE project_amount IS NOT NULL *)
SamplesQuery(t) ==
  SamplesOf(t, {r \in DOMAIN t : r["project_amount"] # None})

(***************************************************************************)
(* Bounds and inputs of the model.                                         *)
(***************************************************************************)
MaxEtlRuns == 2        \* runs of run_etl_pipeline in one behaviour
MaxFullPages == 1      \* full pages the upstream source serves in one run

page_size == 100

RawRecord(dn, pw, amount, size) ==
  [disasterNumber |-> IntV(dn), pwNumber |-> StrV(pw),
   projectAmount |-> IntV(amount), projectSize |-> StrV(size),
   stateAbbreviation |-> StrV("TX"), id |-> StrV("x")]

(* two records with one natural key and different amounts, a record with  *)
(* another key, a record with an empty project worksheet number, and a    *)
(* record without a disaster number                                        *)
RecA == RawRecord(1, "A", 5000, "Small")
RecA2 == RawRecord(1, "A", 200000, "Large")
RecB == RawRecord(1, "B", 5000, "Small")
RecNoPw == RawRecord(1, "", 5000, "Small")
RecNoDn == [pwNumber |-> StrV("A"), id |-> StrV("x")]

Page1(r, n) == <<[rec |-> r, n |-> n]>>
Page2(r1, r2, n) == <<[rec |-> r1, n |-> 1], [rec |-> r2, n |-> n]>>

(* the response bodies the upstream source may serve: at most page_size    *)
(* records, in one or two runs of equal records                            *)
ApiPages ==
  {Page1(r, 1) : r \in {RecA, RecA2, RecB, RecNoPw, RecNoDn}}
  \cup {Page1(RecA, page_size)}
  \cup {Page2(RecA, RecA2, n) : n \in {1, page_size - 1}}
  \cup {Page2(RecA2, RecA, 1), Page2(RecA, RecNoPw, 1),
        Page2(RecA, RecB, page_size - 1)}

PageLen(data) == SumSeq([i \in DOMAIN data |-> data[i].n])

FullSchema ==
  {"disaster_number", "pw_number", "project_amount", "project_size",
   "state_abbreviation", "declaration_date", "damage_category_descrip",
   "hash_value", "created_at", "updated_at"}

(* what schema introspection may report for public_assistance_projects *)
Schemas ==
  {FullSchema, FullSchema \ {"pw_number"},
   FullSchema \ {"disaster_number", "pw_number"}, {"disaster_number"}}

ProcessName == "public_assistance_etl"

NoInsert == [columns |-> {}, conflict |-> <<>>, params |-> <<>>]

(***************************************************************************)
(* State.                                                                  *)
(***************************************************************************)
VARIABLES
  schema,                 \* columns of public_assistance_projects
  key_nullable,           \* the key columns accept NULL (UNIQUE, not PRIMARY KEY)
  table,                  \* committed rows of public_assistance_projects
  fact_disaster_metrics,  \* committed rows of the derived tables
  fact_project_samples,
  etl_control,            \* committed rows of the ledger
  txn,                    \* the open transaction's view of the four tables
  conn, cursor, attempt, slept,            \* get_db_cursor
  pc, stage,              \* position in run_etl_pipeline
  exc, caught,            \* exception in flight, exception being handled
  offset, records_loaded, df, loaded,      \* process_public_assistance_in_batches
  sent,                   \* the INSERT batch_insert issued for the current page
  runs, raised,           \* runs started, what the last run raised
  http_failed,            \* a page request of this run failed
  fetched,                \* the page requests of this run's fetch loop
  loaded_pages,           \* the pages this run's load transactions committed
  probe                   \* a function called on its own: its argument and result

vars == <<schema, key_nullable, table, fact_disaster_metrics,
          fact_project_samples, etl_control, txn, conn, cursor, attempt,
          slept, pc, stage, exc, caught, offset, records_loaded, df, loaded,
          sent, runs, raised, http_failed, fetched, loaded_pages, probe>>

(* what no step of a run changes *)
Env == <<schema, key_nullable, probe>>
Store == <<table, fact_disaster_metrics, fact_project_samples, etl_control>>
Db == <<conn, cursor, attempt, slept>>
Loop == <<offset, records_loaded, df, loaded>>
Hist == <<http_failed, fetched, loaded_pages>>

Committed ==
  [t |-> table, m |-> fact_disaster_metrics, s |-> fact_project_samples,
   c |-> etl_control]

NoView == [t |-> EmptyBag, m |-> EmptyBag, s |-> EmptyBag, c |-> {}]

NoProbe == [op |-> "none", arg |-> <<>>, out |-> <<>>]

Init ==
  /\ schema \in Schemas
  /\ key_nullable \in BOOLEAN
  /\ table = EmptyBag
  /\ fact_disaster_metrics = EmptyBag
  /\ fact_project_samples = EmptyBag
  /\ etl_control = {}
  /\ txn = NoView
  /\ conn = "none" /\ cursor = "none" /\ attempt = 0 /\ slept = <<>>
  /\ pc = "idle" /\ stage = "none"
  /\ exc = "" /\ caught = ""
  /\ offset = 0 /\ records_loaded = 0 /\ df = EmptyDataFrame /\ loaded = 0
  /\ sent = NoInsert
  /\ runs = 0 /\ raised = ""
  /\ http_failed = FALSE /\ fetched = <<>> /\ loaded_pages = <<>>
  /\ probe = NoProbe

(***************************************************************************)
(* run_etl_pipeline and process_public_assistance_in_batches.              *)
(***************************************************************************)
(* entering a `with get_db_cursor()` block for the given stage *)
EnterCursor(st) ==
  /\ stage' = st /\ pc' = "connect"
  /\ attempt' = 0 /\ slept' = <<>>

StartRun ==
  /\ pc \in {"idle", "done"}
  /\ runs < MaxEtlRuns
  /\ runs' = runs + 1
  /\ pc' = "fetch" /\ stage' = "load"
  /\ offset' = 0 /\ records_loaded' = 0 /\ loaded' = 0 /\ df' = EmptyDataFrame
  /\ exc' = "" /\ caught' = "" /\ raised' = ""
  /\ http_failed' = FALSE /\ fetched' = <<>> /\ loaded_pages' = <<>>
  /\ UNCHANGED <<Env, Store, txn, Db, sent>>

EndOfStreamSkipsAggregation == EnterCursor("ledger")

(* the while loop leaves through `break`: populate_fact_tables is next *)
EndOfStream == EnterCursor("agg")

AfterFetchNeverLeaves(d) ==
  /\ stage' = stage /\ pc' = "waiting"
  /\ attempt' = 0 /\ slept' = <<>>

AfterFetchAlwaysLoads(d) == EnterCursor("load")

(* if df.empty: break; otherwise the page goes to batch_insert *)
AfterFetch(d) == IF DfEmpty(d) THEN EndOfStream ELSE EnterCursor("load")

ShortPageOrFull(d) == DfLen(d) <= page_size

(* if len(df) < page_size: break *)
ShortPage(d) == DfLen(d) < page_size

(* the request, raise_for_status or the decoding raised: caught inside    *)
(* fetch_public_assistance_data, which returns an empty DataFrame          *)
FetchFails ==
  /\ pc = "fetch"
  /\ df' = EmptyDataFrame
  /\ fetched' = Append(fetched, [offset |-> offset, len |-> 0, failed |-> TRUE])
  /\ http_failed' = TRUE
  /\ AfterFetch(df')
  /\ UNCHANGED <<Env, Store, txn, conn, cursor, exc, caught, offset,
                 records_loaded, loaded, sent, runs, raised, loaded_pages>>

FetchPage ==
  /\ pc = "fetch"
  /\ \E data \in ApiPages \cup {<<>>} :
       /\ Len(fetched) < MaxFullPages \/ PageLen(data) < page_size
       /\ df' = NormalizePage(data)
       /\ fetched' = Append(fetched, [offset |-> offset, len |-> PageLen(data),
                                      failed |-> FALSE])
       /\ AfterFetch(df')
  /\ UNCHANGED <<Env, Store, txn, conn, cursor, exc, caught, offset,
                 records_loaded, loaded, sent, runs, raised, http_failed,
                 loaded_pages>>

(***************************************************************************)
(* get_db_cursor.                                                          *)
(***************************************************************************)
BackoffLinear(failures) == [a \in 1..failures |-> a]

(* time.sleep(2 ** attempt) after each of the first `failures` attempts *)
Backoff(failures) == [a \in 1..failures |-> 2 ^ (a - 1)]

(* psycopg2.connect raises OperationalError `failures` times, then        *)
(* succeeds: the loop breaks and the cursor is yielded                     *)
ConnectOk ==
  /\ pc = "connect"
  /\ \E failures \in 0..4 :
       /\ attempt' = failures
       /\ slept' = Backoff(failures)
  /\ conn' = "open" /\ cursor' = "open"
  /\ txn' = Committed
  /\ pc' = "body"
  /\ UNCHANGED <<Env, Store, stage, exc, caught, Loop, sent, runs, raised, Hist>>

(* the fifth attempt fails too: `raise e`; conn is None, so the except    *)
(* block has nothing to roll back and finally has nothing to close         *)
ConnectFails ==
  /\ pc = "connect"
  /\ attempt' = 4
  /\ slept' = Backoff(4)
  /\ exc' = stage
  /\ pc' = "close"
  /\ UNCHANGED <<Env, Store, txn, conn, cursor, stage, caught, Loop, sent,
                 runs, raised, Hist>>

CommitDiscards(view) == Committed

(* conn.commit(): what the store holds afterwards *)
CommitAll(view) == view

CommitOk ==
  /\ pc = "commit"
  /\ LET w == CommitAll(txn)
     IN /\ table' = w.t
        /\ fact_disaster_metrics' = w.m
        /\ fact_project_samples' = w.s
        /\ etl_control' = w.c
  /\ pc' = "close"
  /\ IF stage = "load"
     THEN loaded_pages' = Append(loaded_pages, [len |-> DfLen(df),
                                                inserted |-> sent # NoInsert])
     ELSE UNCHANGED loaded_pages
  /\ UNCHANGED <<Env, txn, Db, stage, exc, caught, Loop, sent, runs, raised,
                 http_failed, fetched>>

CommitFails ==
  /\ pc = "commit"
  /\ exc' = stage
  /\ pc' = "rollback"
  /\ UNCHANGED <<Env, Store, txn, Db, stage, caught, Loop, sent, runs, raised,
                 Hist>>

RollbackCommits(view) == view

(* conn.rollback(): what the store holds afterwards *)
RollbackTo(view) == Committed

(* except Exception: conn.rollback(); raise *)
Rollback ==
  /\ pc = "rollback"
  /\ LET w == RollbackTo(txn)
     IN /\ table' = w.t
        /\ fact_disaster_metrics' = w.m
        /\ fact_project_samples' = w.s
        /\ etl_control' = w.c
        /\ txn' = w
  /\ pc' = "close"
  /\ UNCHANGED <<Env, Db, stage, exc, caught, Loop, sent, runs, raised, Hist>>

(* conn.rollback() raises: its error propagates in place of the one being *)
(* handled; nothing was committed, and the store drops the transaction     *)
(* when finally closes the connection                                      *)
RollbackFails ==
  /\ pc = "rollback"
  /\ pc' = "close"
  /\ UNCHANGED <<Env, Store, txn, Db, stage, exc, caught, Loop, sent, runs,
                 raised, Hist>>

ClosedCursorOnly ==
  /\ cursor' = IF cursor = "open" THEN "closed" ELSE cursor
  /\ conn' = conn
  /\ txn' = NoView
  /\ sent' = NoInsert

(* finally: cursor.close(); conn.close(); the transaction's view and the  *)
(* statement are gone with the connection                                  *)
Closed ==
  /\ cursor' = IF cursor = "open" THEN "closed" ELSE cursor
  /\ conn' = IF conn = "open" THEN "closed" ELSE conn
  /\ txn' = NoView
  /\ sent' = NoInsert

(***************************************************************************)
(* The bodies of the four `with get_db_cursor()` blocks.                   *)
(***************************************************************************)
(* the retry loop's locals are dead once the cursor is in use *)
LoopOver == attempt' = 0 /\ slept' = <<>>

LoadFrame == <<Env, Store, conn, cursor, stage, caught, offset,
               records_loaded, df, runs, raised, Hist>>

(* batch_insert returns 0 without issuing the INSERT *)
BatchInsertRejects ==
  /\ pc = "body" /\ stage = "load"
  /\ LoopOver
  /\ Rejected(df.rows, schema)
  /\ loaded' = 0
  /\ sent' = NoInsert
  /\ pc' = "commit"
  /\ UNCHANGED <<LoadFrame, txn, exc>>

(* batch_insert runs the INSERT for every record and returns len(cleaned) *)
BatchInsertOk ==
  /\ pc = "body" /\ stage = "load"
  /\ LoopOver
  /\ ~Rejected(df.rows, schema)
  /\ LET cleaned == Cleaned(df.rows, schema)
         columns == Columns(cleaned)
         conflict == valid_unique_keys(schema)
     IN /\ FirstRefused(schema, key_nullable, columns, Range(conflict), cleaned)
             > Len(cleaned)
        /\ txn' = [txn EXCEPT !.t = ExecuteMany(@, schema, columns,
                                     Range(conflict), cleaned, Len(cleaned) + 1)]
        /\ sent' = [columns |-> columns, conflict |-> conflict, params |-> cleaned]
        /\ loaded' = SumSeq([i \in DOMAIN cleaned |-> cleaned[i].n])
  /\ pc' = "commit"
  /\ UNCHANGED <<LoadFrame, exc>>

(* the introspection query raises *)
IntrospectionRaises ==
  /\ pc = "body" /\ stage = "load"
  /\ LoopOver
  /\ exc' = "load"
  /\ pc' = "rollback"
  /\ UNCHANGED <<LoadFrame, txn, sent, loaded>>

(* the statement of run number `at` raises: the store refuses it, or the  *)
(* connection fails; the statements before it have run                     *)
BatchInsertRaises ==
  /\ pc = "body" /\ stage = "load"
  /\ LoopOver
  /\ ~Rejected(df.rows, schema)
  /\ LET cleaned == Cleaned(df.rows, schema)
         columns == Columns(cleaned)
         conflict == valid_unique_keys(schema)
         refused == FirstRefused(schema, key_nullable, columns,
                                 Range(conflict), cleaned)
     IN \E at \in DOMAIN cleaned :
          /\ at <= refused
          /\ txn' = [txn EXCEPT !.t = ExecuteMany(@, schema, columns,
                                        Range(conflict), cleaned, at)]
          /\ sent' = [columns |-> columns, conflict |-> conflict,
                      params |-> SubSeq(cleaned, 1, at)]
  /\ exc' = "load"
  /\ pc' = "rollback"
  /\ UNCHANGED <<LoadFrame, loaded>>

SetToBag(S) == [x \in S |-> 1]

RECURSIVE BagUnion(_, _)
BagUnion(a, b) ==
  IF DOMAIN b = {} THEN a
  ELSE LET e == CHOOSE x \in DOMAIN b : TRUE
       IN BagUnion(BagAdd(a, e, b[e]), BagWithout(b, e))

PopulateWithoutTruncate(w, done) ==
  [t |-> w.t,
   m |-> IF done >= 3 THEN BagUnion(w.m, SetToBag(MetricsQuery(w.t))) ELSE w.m,
   s |-> IF done >= 4 THEN BagUnion(w.s, SamplesQuery(w.t)) ELSE w.s,
   c |-> w.c]

(* the view after the first `done` statements of populate_fact_tables:    *)
(* two TRUNCATEs, then the two INSERT ... SELECT                           *)
PopulateSteps(w, done) ==
  LET m1 == IF done >= 1 THEN EmptyBag ELSE w.m
      s2 == IF done >= 2 THEN EmptyBag ELSE w.s
  IN [t |-> w.t,
      m |-> IF done >= 3 THEN BagUnion(m1, SetToBag(MetricsQuery(w.t))) ELSE m1,
      s |-> IF done >= 4 THEN BagUnion(s2, SamplesQuery(w.t)) ELSE s2,
      c |-> w.c]

(* both queries name columns the base table must have *)
QueriesRefused == ~(AggColumns \subseteq schema)

(* the fetch loop has returned: only its total is used from here on *)
LoopReturned == fetched' = <<>> /\ loaded_pages' = <<>>

AfterLoadFrame == <<Env, Store, conn, cursor, stage, caught, Loop, sent, runs,
                    raised, http_failed>>

PopulateFactTablesOk ==
  /\ pc = "body" /\ stage = "agg"
  /\ LoopOver /\ LoopReturned
  /\ ~QueriesRefused
  /\ txn' = PopulateSteps(txn, 4)
  /\ pc' = "commit"
  /\ UNCHANGED <<AfterLoadFrame, exc>>

(* statement number `at` of the four raises *)
PopulateFactTablesRaises ==
  /\ pc = "body" /\ stage = "agg"
  /\ LoopOver /\ LoopReturned
  /\ \E at \in 1..4 :
       /\ QueriesRefused => at <= 3
       /\ txn' = PopulateSteps(txn, at - 1)
  /\ exc' = "agg"
  /\ pc' = "rollback"
  /\ UNCHANGED AfterLoadFrame

LedgerAppend(c, status, now, count) ==
  c \cup {[process_name |-> ProcessName, last_run_timestamp |-> now,
           status |-> status, records_processed |-> None]}

(* INSERT INTO etl_control (process_name, last_run_timestamp, status)     *)
(* VALUES (...) ON CONFLICT (process_name) DO UPDATE SET ...: the insert   *)
(* leaves records_processed at its default; the update of a COMPLETED run *)
(* sets it to SELECT COUNT( * ) FROM public_assistance_projects            *)
LedgerUpsert(c, status, now, count) ==
  IF \E e \in c : e.process_name = ProcessName
  THEN {IF e.process_name = ProcessName
        THEN [e EXCEPT !.last_run_timestamp = now, !.status = status,
                       !.records_processed =
                          IF status = "COMPLETED" THEN IntV(count) ELSE @]
        ELSE e : e \in c}
  ELSE c \cup {[process_name |-> ProcessName, last_run_timestamp |-> now,
                status |-> status, records_processed |-> None]}

UpdateEtlControlOk ==
  /\ pc = "body" /\ stage = "ledger"
  /\ LoopOver
  /\ txn' = [txn EXCEPT !.c = LedgerUpsert(@, "COMPLETED", runs, BagSize(txn.t))]
  /\ pc' = "commit"
  /\ UNCHANGED <<AfterLoadFrame, exc, fetched, loaded_pages>>

UpdateEtlControlRaises ==
  /\ pc = "body" /\ stage = "ledger"
  /\ LoopOver
  /\ exc' = "ledger"
  /\ pc' = "rollback"
  /\ UNCHANGED <<AfterLoadFrame, txn, fetched, loaded_pages>>

(* the except block of run_etl_pipeline writes FAILED *)
WriteFailedOk ==
  /\ pc = "body" /\ stage = "failed"
  /\ LoopOver
  /\ txn' = [txn EXCEPT !.c = LedgerUpsert(@, "FAILED", runs, 0)]
  /\ pc' = "commit"
  /\ UNCHANGED <<AfterLoadFrame, exc, fetched, loaded_pages>>

WriteFailedRaises ==
  /\ pc = "body" /\ stage = "failed"
  /\ LoopOver
  /\ exc' = "failed"
  /\ pc' = "rollback"
  /\ UNCHANGED <<AfterLoadFrame, txn, fetched, loaded_pages>>

(***************************************************************************)
(* Leaving the `with` block: finally, then what the caller does next.      *)
(***************************************************************************)
(* the page was short: the loop ends after it *)
LoadedLastPage ==
  /\ pc = "close" /\ stage = "load" /\ exc = ""
  /\ Closed
  /\ records_loaded' = records_loaded + loaded
  /\ ShortPage(df)
  /\ EndOfStream
  /\ df' = EmptyDataFrame /\ loaded' = 0
  /\ UNCHANGED <<Env, Store, exc, caught, offset, runs, raised, Hist>>

NextOffsetSame(o) == o

(* offset += page_size *)
NextOffset(o) == o + page_size

(* a full page: offset += page_size; time.sleep(1); fetch again *)
LoadedFullPage ==
  /\ pc = "close" /\ stage = "load" /\ exc = ""
  /\ Closed
  /\ records_loaded' = records_loaded + loaded
  /\ ~ShortPage(df)
  /\ offset' = NextOffset(offset)
  /\ pc' = "fetch"
  /\ UNCHANGED <<Env, Store, attempt, slept, stage, exc, caught, df, loaded,
                 runs, raised, Hist>>

Populated ==
  /\ pc = "close" /\ stage = "agg" /\ exc = ""
  /\ Closed
  /\ EnterCursor("ledger")
  /\ UNCHANGED <<Env, Store, exc, caught, Loop, runs, raised, Hist>>

(* run_etl_pipeline returns normally *)
RunCompleted ==
  /\ pc = "close" /\ stage = "ledger" /\ exc = ""
  /\ Closed
  /\ pc' = "done"
  /\ raised' = ""
  /\ UNCHANGED <<Env, Store, attempt, slept, stage, exc, caught, Loop, runs,
                 Hist>>

(* a stage of the try block raised: the except block starts; the locals   *)
(* of the fetch loop are gone                                              *)
StageRaised ==
  /\ pc = "close" /\ stage \in {"load", "agg", "ledger"} /\ exc # ""
  /\ Closed
  /\ caught' = exc
  /\ exc' = ""
  /\ EnterCursor("failed")
  /\ offset' = 0 /\ records_loaded' = 0 /\ df' = EmptyDataFrame /\ loaded' = 0
  /\ LoopReturned
  /\ UNCHANGED <<Env, Store, runs, raised, http_failed>>

RaisedOriginal(handled, current) == handled

(* what leaves run_etl_pipeline: the bare `raise` re-raises the handled   *)
(* exception unless the except block's own transaction raised first        *)
RaisedByHandler(handled, current) ==
  IF current = "" THEN handled ELSE current

RunFailed ==
  /\ pc = "close" /\ stage = "failed"
  /\ Closed
  /\ raised' = RaisedByHandler(caught, exc)
  /\ exc' = ""
  /\ pc' = "done"
  /\ UNCHANGED <<Env, Store, attempt, slept, stage, caught, Loop, runs, Hist>>

Next ==
  \/ StartRun
  \/ FetchFails
  \/ FetchPage
  \/ ConnectOk
  \/ ConnectFails
  \/ IntrospectionRaises
  \/ BatchInsertRejects
  \/ BatchInsertRaises
  \/ BatchInsertOk
  \/ PopulateFactTablesOk
  \/ PopulateFactTablesRaises
  \/ UpdateEtlControlOk
  \/ UpdateEtlControlRaises
  \/ WriteFailedOk
  \/ WriteFailedRaises
  \/ CommitOk
  \/ CommitFails
  \/ Rollback
  \/ RollbackFails
  \/ LoadedLastPage
  \/ LoadedFullPage
  \/ Populated
  \/ RunCompleted
  \/ StageRaised
  \/ RunFailed

Spec == Init /\ [][Next]_vars

(* a step of run_etl_pipeline itself: the interpreter runs the next        *)
(* statement of a started run; when the pipeline is started is up to its   *)
(* caller                                                                  *)
ProgramStep == pc \notin {"idle", "done"} /\ Next

(* the runs on a store whose key columns are NOT NULL, with the full       *)
(* schema and with the schema that has neither key column                  *)
InitLive ==
  /\ Init
  /\ ~key_nullable
  /\ schema \in {FullSchema, FullSchema \ {"disaster_number", "pw_number"}}

LiveSpec == InitLive /\ [][Next]_vars /\ WF_vars(ProgramStep)

(***************************************************************************)
(* The functions of the module called on their own, outside a run: each    *)
(* step calls one function on one argument and records the result.         *)
(***************************************************************************)
RunVars == <<schema, key_nullable, table, fact_disaster_metrics,
             fact_project_samples, etl_control, txn, conn, cursor, attempt,
             slept, pc, stage, exc, caught, offset, records_loaded, df,
             loaded, sent, runs, raised, http_failed, fetched, loaded_pages>>

InitCalls == Init /\ schema = FullSchema /\ ~key_nullable

(* the values an amount field of a raw record may carry *)
RawAmounts == {IntV(5000), StrV("12"), StrV("abc"), None}

(* raw records with and without the projectAmount field *)
AmountRecords ==
  {[disasterNumber |-> IntV(1)]}
  \cup {[disasterNumber |-> IntV(1), projectAmount |-> a] : a \in RawAmounts}

AmountPages ==
  {Page1(r, 1) : r \in AmountRecords}
  \cup {<<[rec |-> r1, n |-> 1], [rec |-> r2, n |-> 1]>> :
          r1 \in AmountRecords, r2 \in AmountRecords}

(* a text of n characters *)
TextBlock == "abcdefghijklmnopqrstuvwxyABCDEFGHIJKLMNOPQRSTUVWXY"

RECURSIVE Text(_)
Text(n) ==
  IF n <= Len(TextBlock) THEN SubSeq(TextBlock, 1, n)
  ELSE TextBlock \o Text(n - Len(TextBlock))

(* fields without a declared maximum length *)
UnboundedFields == {"hash_value", "disaster_number"}

(* the values a field may carry when it reaches clean_record_for_insertion: *)
(* texts around the field's maximum length, the sentinel tokens, NaN, None  *)
(* and a number                                                            *)
FieldValues(key) ==
  LET lens == IF key \in DOMAIN field_max_lengths
              THEN {field_max_lengths[key] - 1, field_max_lengths[key],
                    field_max_lengths[key] + 1, field_max_lengths[key] + 7}
              ELSE {11, 501}
  IN {StrV(Text(n)) : n \in lens}
     \cup {StrV(t) : t \in {"NaT", "nan", "None", "", "Small"}}
     \cup {NaN, None, IntV(2000000000)}

(* clean_record_for_insertion on a record of one field *)
CallClean ==
  /\ \E key \in DOMAIN field_max_lengths \cup UnboundedFields :
       \E value \in FieldValues(key) :
         probe' = [op |-> "clean",
                   arg |-> [key |-> key, value |-> value],
                   out |-> clean_record_for_insertion([k \in {key} |-> value])]
  /\ UNCHANGED RunVars

(* a Timestamp, as pd.to_datetime makes it from the text of a day *)
Timestamp(day) == [k |-> "date", n |-> 0, s |-> day]

(* records of two fields, in both insertion orders *)
HashRecords ==
  LET pws == {StrV("A"), StrV("1"), IntV(1)}
      dates == {Timestamp("2020-01-01"), Timestamp("2020-01-02"), NaN,
                StrV("2020-01-01 00:00:00"), None}
  IN {<<[key |-> "pw_number", value |-> p],
        [key |-> "declaration_date", value |-> d]>> : p \in pws, d \in dates}
     \cup {<<[key |-> "declaration_date", value |-> d],
             [key |-> "pw_number", value |-> p]>> : p \in pws, d \in dates}

(* generate_hash on two records *)
CallHash ==
  /\ \E r1 \in HashRecords, r2 \in HashRecords :
       probe' = [op |-> "hash", arg |-> <<r1, r2>>,
                 out |-> <<generate_hash(r1), generate_hash(r2)>>]
  /\ UNCHANGED RunVars

(* fetch_public_assistance_data on a decoded response body *)
CallFetch ==
  /\ \E data \in AmountPages :
       probe' = [op |-> "fetch", arg |-> data, out |-> NormalizePage(data)]
  /\ UNCHANGED RunVars

(* project amounts around the two thresholds *)
SampleAmounts ==
  {IntV(n) : n \in {0, LowThreshold - 1, LowThreshold, LowThreshold + 1,
                    HighThreshold - 1, HighThreshold, HighThreshold + 1}}
    \cup {None}

(* the samples query of populate_fact_tables on a table of two rows *)
CallSamples ==
  /\ \E a \in SampleAmounts, b \in SampleAmounts :
       LET Row(d, amount) ==
             [c \in FullSchema |->
                IF c = "project_amount" THEN amount
                ELSE IF c = "disaster_number" THEN IntV(d)
                ELSE None]
           t == SetToBag({Row(1, a), Row(2, b)})
       IN probe' = [op |-> "samples", arg |-> t, out |-> SamplesQuery(t)]
  /\ UNCHANGED RunVars

NextCall ==
  \/ CallFetch
  \/ CallClean
  \/ CallHash
  \/ CallSamples

CallSpec == InitCalls /\ [][NextCall]_vars

(***************************************************************************)
(* Properties.                                                             *)
(***************************************************************************)
NaturalKey == {"disaster_number", "pw_number"}

(* batch_insert has returned and its transaction has committed *)
LoadCommitted == pc = "close" /\ stage = "load" /\ exc = ""

(* the page's records as batch_insert cleans them *)
PageCleaned == Cleaned(df.rows, schema)

(* the table after the INSERT of `s` runs once more for all its records *)
LoadedAgain(t, s) ==
  ExecuteMany(t, schema, s.columns, Range(s.conflict), s.params,
              Len(s.params) + 1)

(* C1: loading the same batch a second time, right after its load has     *)
(* committed, leaves public_assistance_projects as the first load left it: *)
(* no row is added and no value changes.                                   *)
C1_Idempotent ==
  (LoadCommitted /\ sent # NoInsert) => LoadedAgain(table, sent) = table

(* the store's view of two parameter records having one key: equal and    *)
(* not NULL in every conflict column                                       *)
SameKey(a, b, conflict) ==
  \A k \in conflict : k \in DOMAIN a /\ a[k] # None /\ a[k] = b[k]

RowsWithKey(t, rec, conflict) ==
  {r \in DOMAIN t : \A k \in conflict : r[k] = rec[k]}

C3_PageAtomic ==
  [][stage = "load" =>
       /\ \/ table' = table
          \/ /\ pc = "commit" /\ pc' = "close" /\ exc' = ""
             /\ ~Rejected(df.rows, schema)
             /\ table' = ExecuteMany(table, schema, Columns(PageCleaned),
                                     Range(valid_unique_keys(schema)),
                                     PageCleaned, Len(PageCleaned) + 1)
       /\ (exc # "" \/ exc' # "") => table' = table
       /\ (pc = "close" /\ exc # "") => (caught' = exc /\ stage' = "failed")
       /\ (pc = "rollback") => exc' = exc]_vars

(* the second statement of a page raised after the first had run, and     *)
(* the rollback left none of the page's rows in the table                  *)
C3_Witness ==
  /\ pc = "close" /\ stage = "load" /\ exc = "load"
  /\ Len(sent.params) = 2
  /\ table = EmptyBag

(* the ledger entries of the pipeline's process name *)
LedgerEntries == {e \in etl_control : e.process_name = ProcessName}

LedgerIs(status) ==
  LedgerEntries # {} /\ \A e \in LedgerEntries : e.status = status

LoopHasReturned == stage = "agg" /\ pc = "connect"

RECURSIVE SumInserted(_)
SumInserted(q) ==
  IF q = <<>> THEN 0
  ELSE (IF Head(q).inserted THEN Head(q).len ELSE 0) + SumInserted(Tail(q))

NonEmptyFetches == SelectSeq(fetched, LAMBDA f : f.len > 0)

(* C5: every page requested before the last one was a full page, so the   *)
(* first empty or short page ends the fetching; an empty page never enters *)
(* a load transaction; every non-empty page, the short last one included,  *)
(* has gone through a load transaction when the loop returns; and the      *)
(* total returned is the sum of the sizes of the pages inserted.           *)
C5_StopsAtShortPage ==
  /\ \A i \in 1..(Len(fetched) - 1) :
       fetched[i].len = page_size /\ ~fetched[i].failed
  /\ \A i, j \in DOMAIN fetched :
       i < j => fetched[j].offset = fetched[i].offset + (j - i) * page_size
  /\ (stage = "load" /\ pc \in {"connect", "body", "commit", "rollback", "close"})
       => (fetched # <<>> /\ fetched[Len(fetched)].len > 0 /\ ~DfEmpty(df))
  /\ LoopHasReturned =>
       /\ fetched # <<>>
       /\ fetched[Len(fetched)].len < page_size
       /\ Len(loaded_pages) = Len(NonEmptyFetches)
       /\ \A i \in DOMAIN loaded_pages :
            loaded_pages[i].len = NonEmptyFetches[i].len
       /\ records_loaded = SumInserted(loaded_pages)

(* a full page and then a short page were loaded, and the loop returned   *)
C5_Witness ==
  /\ LoopHasReturned
  /\ Len(fetched) = 2
  /\ fetched[2].len \in 1..(page_size - 1)
  /\ Len(loaded_pages) = 2
  /\ records_loaded = page_size + fetched[2].len

(* C6: a failed page request raises nothing: the fetcher hands back an    *)
(* empty page, the loop ends as at end-of-data with the store as the       *)
(* earlier pages left it and the total unchanged, the offset is requested  *)
(* once, populate_fact_tables is next, and the run records COMPLETED       *)
(* unless a later store transaction raises.                                *)
C6_FetchFailureEndsLoop ==
  /\ [](/\ http_failed => caught # "load"
        /\ \A i, j \in DOMAIN fetched :
             (fetched[i].offset = fetched[j].offset) => i = j
        /\ (fetched # <<>> /\ fetched[Len(fetched)].failed) =>
             (stage = "agg" /\ DfEmpty(df))
        /\ (pc = "done" /\ http_failed /\ caught = "") =>
             (raised = "" /\ LedgerIs("COMPLETED")))
  /\ [][(~http_failed /\ http_failed') =>
          /\ df' = EmptyDataFrame
          /\ exc' = "" /\ caught' = ""
          /\ Store' = Store
          /\ records_loaded' = records_loaded
          /\ stage' = "agg" /\ pc' = "connect"]_vars

(* the request for the second page failed after a full first page was     *)
(* committed, and the run completed                                        *)
C6_Witness ==
  /\ pc = "done" /\ http_failed /\ raised = ""
  /\ records_loaded = page_size
  /\ table # EmptyBag
  /\ LedgerIs("COMPLETED")

(* batch_insert has returned to the load loop *)
BatchInsertReturned == stage = "load" /\ pc = "commit"

(* the INSERT has been issued for every record of the page *)
InsertedWholePage ==
  /\ sent # NoInsert
  /\ sent.params = PageCleaned
  /\ loaded = DfLen(df)

ColumnsRemaining ==
  (df.columns \cap schema) \cup ({"created_at", "updated_at"} \cap schema)

RejectCase ==
  \/ df.rows = <<>>
  \/ ColumnsRemaining = {}
  \/ NaturalKey \cap schema = {}

C9_OnlySchemaColumns ==
  /\ sent # NoInsert =>
       /\ sent.columns \subseteq schema
       /\ Range(sent.conflict) \subseteq schema
       /\ \A i \in DOMAIN sent.params :
            /\ DOMAIN sent.params[i].rec = sent.columns
            /\ DOMAIN sent.params[i].rec \cap (df.columns \ schema) = {}
  /\ (BatchInsertReturned /\ ~RejectCase) => InsertedWholePage

(* a page with a field the table lacks has been inserted *)
C9_Witness ==
  /\ BatchInsertReturned /\ sent # NoInsert
  /\ "id" \in df.columns \ schema
  /\ loaded = DfLen(df)

(* C10: every record sent with the INSERT has a value that is not null    *)
(* for each of the natural-key columns.                                    *)
C10_KeysNeverNull ==
  sent # NoInsert =>
    \A i \in DOMAIN sent.params :
      \A k \in NaturalKey \cap schema :
        k \in DOMAIN sent.params[i].rec /\ sent.params[i].rec[k] # None

(* populate_fact_tables has returned and its transaction has committed *)
AggCommitted == pc = "close" /\ stage = "agg" /\ exc = ""

(* C11: running populate_fact_tables once more, right after it has        *)
(* committed and with public_assistance_projects unchanged, leaves both    *)
(* derived tables with the rows and values the first run left: nothing of  *)
(* the earlier run accumulates.                                            *)
C11_FullReplaceIdempotent ==
  AggCommitted =>
    /\ PopulateSteps(Committed, 4).m = fact_disaster_metrics
    /\ PopulateSteps(Committed, 4).s = fact_project_samples
    /\ PopulateSteps(Committed, 4).t = table

(* the aggregation has committed over a base table with rows, after an    *)
(* earlier run had already filled the derived tables                       *)
C11_Witness ==
  /\ AggCommitted
  /\ runs = 2
  /\ BagSize(fact_project_samples) > 0
  /\ BagSize(fact_disaster_metrics) > 0
  /\ \E e \in etl_control : e.status = "COMPLETED"

(* C12 as stated: a run whose aggregation stage raised always ends with   *)
(* the ledger entry in status FAILED.                                      *)
C12_FailedAlwaysRecorded ==
  (pc = "done" /\ caught = "agg") => LedgerIs("FAILED")

(* C12 as amended: while populate_fact_tables runs, the derived tables    *)
(* change only by the commit of its whole transaction, which replaces both *)
(* with the rebuilt contents; when a statement or the commit fails nothing *)
(* of the store changes, the error reaches the except block of             *)
(* run_etl_pipeline and the run raises; the entry is FAILED when the       *)
(* FAILED write's own transaction commits.                                 *)
C12_AggregationAtomic ==
  /\ []((pc = "done" /\ caught = "agg") =>
          (raised # "" /\ (raised = "agg" => LedgerIs("FAILED"))))
  /\ [][stage = "agg" =>
          \/ UNCHANGED <<fact_disaster_metrics, fact_project_samples>>
          \/ /\ pc = "commit" /\ exc = "" /\ exc' = ""
             /\ fact_disaster_metrics' = SetToBag(MetricsQuery(table))
             /\ fact_project_samples' = SamplesQuery(table)]_vars
  /\ [][(stage = "agg" /\ (exc = "agg" \/ exc' = "agg")) =>
          /\ Store' = Store
          /\ (pc = "close" => (caught' = "agg" /\ stage' = "failed"))]_vars

(* a statement of populate_fact_tables failed on a connection that was    *)
(* open, and the derived tables still hold what an earlier run put there   *)
C12_Witness ==
  /\ pc = "close" /\ stage = "agg" /\ exc = "agg"
  /\ conn = "open"
  /\ BagSize(fact_disaster_metrics) > 0
  /\ BagSize(fact_project_samples) > 0

(* each committed change of the ledger is made by this run's ledger write *)
(* and leaves the single entry carrying this run's outcome                  *)
LedgerWrittenBy(status) ==
  /\ pc = "commit"
  /\ stage = (IF status = "COMPLETED" THEN "ledger" ELSE "failed")
  /\ \A e \in etl_control' :
       e.process_name = ProcessName /\ e.status = status
         /\ e.last_run_timestamp = runs

(* C13: the ledger never holds more than one entry for                     *)
(* public_assistance_etl; it changes only when a run's COMPLETED or FAILED *)
(* write commits, and then its one entry carries that run's outcome and    *)
(* time, whatever it held before.                                          *)
C13_SingleLatestEntry ==
  /\ [](Cardinality(etl_control) <= 1 /\ etl_control = LedgerEntries)
  /\ [][etl_control' # etl_control =>
          /\ Cardinality(etl_control') = 1
          /\ (LedgerWrittenBy("COMPLETED") \/ LedgerWrittenBy("FAILED"))]_vars
  /\ []((pc = "done" /\ raised # "failed") =>
          /\ LedgerIs(IF raised = "" THEN "COMPLETED" ELSE "FAILED")
          /\ \A e \in etl_control : e.last_run_timestamp = runs)

(* a second run has written COMPLETED over the entry of the first: the    *)
(* row count is set by the update branch only                              *)
C13_Witness ==
  /\ pc = "done" /\ runs = 2
  /\ \E e \in etl_control :
       /\ e.last_run_timestamp = 2
       /\ e.status = "COMPLETED"
       /\ e.records_processed # None

(* C14: after every run that ended without an exception, the first one    *)
(* included, records_processed of the ledger entry is the number of rows   *)
(* of public_assistance_projects.                                          *)
C14_SnapshotIsRowCount ==
  (pc = "done" /\ raised = "" /\ caught = "") =>
    /\ LedgerEntries # {}
    /\ \A e \in LedgerEntries : e.records_processed = IntV(BagSize(table))

(* C15: when the FAILED write of a failed run fails itself, what leaves   *)
(* run_etl_pipeline is still the exception of the stage that failed.       *)
C15_OriginalErrorPropagates ==
  (pc = "done" /\ caught # "") => raised = caught

(* the waits of the connection loop: 1, 2, 4, 8 seconds *)
Waits == <<1, 2, 4, 8>>

(* C16: get_db_cursor yields a cursor after at most 4 failed attempts,    *)
(* having waited 1, 2, 4, 8 seconds after the failed ones and not after    *)
(* the successful one; when the fifth attempt fails too it has waited the  *)
(* four times, yields no cursor and the error propagates; a failure in the *)
(* body, the commit or the rollback never goes back to connecting: the     *)
(* block is left with the exception.                                       *)
C16_BoundedBackoffAtConnectOnly ==
  /\ [](/\ attempt \in 0..4
        /\ Len(slept) <= 4
        /\ pc = "body" => (slept = SubSeq(Waits, 1, attempt) /\ cursor = "open"))
  /\ [][pc = "connect" =>
          \/ /\ pc' = "body" /\ exc' = exc
             /\ attempt' \in 0..4 /\ slept' = SubSeq(Waits, 1, attempt')
          \/ /\ pc' = "close" /\ exc' = stage
             /\ attempt' = 4 /\ slept' = Waits
             /\ cursor' # "open" /\ conn' # "open" /\ txn' = txn]_vars
  /\ [][(pc \in {"body", "commit", "rollback", "close"}) =>
          /\ pc' \notin {"body"}
          /\ pc' = "connect" => (stage' # stage /\ conn' # "open")
          /\ (exc # "" /\ pc # "close") => (exc' = exc /\ pc' \in {"rollback", "close"})
          /\ (exc = "" /\ exc' # "") => pc' = "rollback"]_vars

(* the store was unreachable four times and the fifth attempt connected *)
C16_Witness ==
  pc = "body" /\ attempt = 4 /\ slept = <<1, 2, 4, 8>> /\ cursor = "open"

(* the with block of get_db_cursor is not being executed *)
OutsideBlock == pc \in {"idle", "fetch", "connect", "done"}

(* C17: outside a get_db_cursor block no connection and no cursor is open *)
(* and no transaction is pending; every way out of a block (after commit,  *)
(* after rollback, after a failed commit, after a failed rollback) goes    *)
(* through finally, which leaves the cursor and the connection closed.     *)
C17_AlwaysReleased ==
  /\ [](OutsideBlock => (conn # "open" /\ cursor # "open" /\ txn = NoView))
  /\ [](cursor = "open" => conn = "open")
  /\ []((conn = "open" /\ Committed # txn) => pc \in {"commit", "rollback", "close"})
  /\ [][(pc = "close") =>
          (conn' # "open" /\ cursor' # "open" /\ txn' = NoView
             /\ (conn = "open" => conn' = "closed"))]_vars
  /\ [][(pc \in {"body", "commit", "rollback"}) => pc' \in {"commit", "rollback", "close"}]_vars

(* finally is reached with the connection open after a rollback that      *)
(* failed: the transaction's changes are still pending                     *)
C17_Witness ==
  /\ pc = "close" /\ exc # ""
  /\ conn = "open" /\ cursor = "open"
  /\ txn # Committed

(* the order of the stages of one run *)
StageRank(st) ==
  CASE st = "none" -> 0 [] st = "load" -> 1 [] st = "agg" -> 2
    [] st = "ledger" -> 3 [] st = "failed" -> 4

(* C18: within a run the stages follow one another in the order load,     *)
(* aggregation, ledger write, and none is entered twice.  Aggregation      *)
(* starts only from the fetch-load loop, with no exception in flight, no   *)
(* connection open and no transaction pending, so every loaded page is     *)
(* committed; the COMPLETED write starts only after the aggregation's      *)
(* transaction has committed the rebuilt derived tables; when the load     *)
(* loop raises, the run goes to its except block and never to aggregation. *)
C18_StageOrder ==
  /\ [][runs' = runs =>
          /\ StageRank(stage) <= StageRank(stage')
          /\ (stage' # stage /\ stage' # "failed") =>
               StageRank(stage') = StageRank(stage) + 1]_vars
  /\ [][(stage' = "agg" /\ stage # "agg") =>
          /\ stage = "load" /\ exc = "" /\ pc \in {"fetch", "close"}
          /\ pc = "close" => table = txn.t
          /\ conn' # "open" /\ txn' = NoView /\ pc' = "connect"
          /\ records_loaded' = SumInserted(loaded_pages)]_vars
  /\ [][(stage' = "ledger" /\ stage # "ledger") =>
          /\ stage = "agg" /\ exc = "" /\ pc = "close"
          /\ fact_disaster_metrics = SetToBag(MetricsQuery(table))
          /\ fact_project_samples = SamplesQuery(table)
          /\ conn' # "open" /\ txn' = NoView]_vars
  /\ [][(stage = "load" /\ exc # "") =>
          stage' \in {"load", "failed"}]_vars
  /\ [](caught = "load" => stage \in {"failed"})

(* a run has loaded a page and gone through aggregation to the ledger     *)
(* write                                                                   *)
C18_Witness ==
  /\ stage = "ledger" /\ pc = "body"
  /\ BagSize(table) > 0
  /\ BagSize(fact_disaster_metrics) > 0
  /\ records_loaded > 0

(* an HTTP page request is in progress / a store transaction is open *)
Requesting == pc = "fetch"
InTransaction == conn = "open"

(* C19: a page request and a store transaction are never in progress at   *)
(* the same time: while a page is requested no connection is open and no   *)
(* transaction is pending; the next page is requested only after the       *)
(* transaction of the page before has committed and its connection is      *)
(* closed; the offsets requested in a run are 0, 100, 200, ..., each once. *)
C19_NoOverlap ==
  /\ [](~(Requesting /\ InTransaction))
  /\ [](Requesting => (cursor # "open" /\ txn = NoView /\ exc = ""))
  /\ [](Requesting => offset = Len(fetched) * page_size)
  /\ [](\A i \in DOMAIN fetched : fetched[i].offset = (i - 1) * page_size)
  /\ [][(Requesting' /\ ~Requesting) =>
          \/ /\ runs' = runs + 1 /\ offset' = 0 /\ fetched' = <<>>
          \/ /\ pc = "close" /\ stage = "load" /\ exc = ""
             /\ table = txn.t
             /\ conn' # "open"
             /\ offset' = offset + page_size]_vars

(* the second page is being requested after the first one was committed   *)
(* and its connection closed                                               *)
C19_Witness ==
  /\ Requesting
  /\ offset = page_size
  /\ Len(fetched) = 1
  /\ conn = "closed"
  /\ BagSize(table) > 0

(* the warehouse columns: the targets of column_mapping *)
CanonicalColumns == Range(column_mapping)

(* C20: every record fetch_public_assistance_data outputs has exactly the *)
(* canonical columns: source keys outside the mapping are dropped and the  *)
(* canonical columns the page did not supply are filled in.                *)
C20_ExactlyCanonicalColumns ==
  ~DfEmpty(df) =>
    /\ df.columns = CanonicalColumns
    /\ \A i \in DOMAIN df.rows : DOMAIN df.rows[i].rec = CanonicalColumns

(* the raw value is a number or the text of one *)
NumericRaw(v) == v.k = "int" \/ (v.k = "str" /\ IsNumericString(v.s))

(* C21: whatever the records of a page carry in projectAmount, and also   *)
(* when none of them carries an amount field at all, every record fetched  *)
(* has each of the four amount fields, with a number in it, and with zero  *)
(* when the raw value was missing or not numeric.                          *)
C21_MissingAmountIsZero ==
  probe.op = "fetch" =>
    \A i \in DOMAIN probe.out.rows :
      \A f \in numeric_fields :
        /\ f \in DOMAIN probe.out.rows[i].rec
        /\ probe.out.rows[i].rec[f].k = "int"
        /\ (f = "project_amount"
              /\ ~("projectAmount" \in DOMAIN probe.arg[i].rec
                     /\ NumericRaw(probe.arg[i].rec["projectAmount"])))
             => probe.out.rows[i].rec[f] = IntV(0)

(* the part of C21 the code does meet: the field is zero for a record     *)
(* that lacks it or carries no number in it, as soon as one record of the  *)
(* page carries the field                                                  *)
AmountZeroWhenColumnPresent ==
  probe.op = "fetch" =>
    \A i \in DOMAIN probe.out.rows :
      "project_amount" \in probe.out.columns =>
        /\ probe.out.rows[i].rec["project_amount"].k = "int"
        /\ ~("projectAmount" \in DOMAIN probe.arg[i].rec
               /\ NumericRaw(probe.arg[i].rec["projectAmount"]))
             => probe.out.rows[i].rec["project_amount"] = IntV(0)

(* the call of clean_record_for_insertion the probe records *)
CleanedField == probe.out[probe.arg.key]
CleanedText == probe.op = "clean" /\ probe.arg.value.k = "str"

(* the declared maximum lengths, as the claim reads them off the code *)
DeclaredMax ==
  [incident_type |-> 100, pw_number |-> 50, application_title |-> 500,
   applicant_id |-> 50, damage_category_code |-> 10,
   damage_category_descrip |-> 255, project_status |-> 50,
   project_process_step |-> 100, project_size |-> 50, county |-> 100,
   county_code |-> 10, state_abbreviation |-> 10, state_number_code |-> 10,
   gm_project_id |-> 50, gm_applicant_id |-> 50]

(* the text is cut to its first max characters when longer, else kept *)
CutOrKept(key, text, result) ==
  IF key \in DOMAIN DeclaredMax /\ Len(text) > DeclaredMax[key]
  THEN /\ result.k = "str"
       /\ Len(result.s) = DeclaredMax[key]
       /\ result.s = SubSeq(text, 1, DeclaredMax[key])
  ELSE result = StrV(text)

(* C22 as stated: every text in a field with a declared maximum comes out *)
(* cut to its first max characters when longer and unchanged otherwise;    *)
(* a text in a field without a maximum comes out unchanged.                *)
C22_CutOrUnchanged ==
  CleanedText => CutOrKept(probe.arg.key, probe.arg.value.s, CleanedField)

(* C22 as amended: the same, for every text that is not one of the tokens *)
(* '', 'None', 'nan', 'NaT'; those come out as null whatever the field.    *)
C22_CutOrUnchangedUnlessToken ==
  CleanedText =>
    IF probe.arg.value.s \in {"", "None", "nan", "NaT"}
    THEN CleanedField = None
    ELSE CutOrKept(probe.arg.key, probe.arg.value.s, CleanedField)

(* a state abbreviation of 11 characters has been cut to its first 10 *)
C22_Witness ==
  /\ CleanedText
  /\ probe.arg.key = "state_abbreviation"
  /\ probe.arg.value.s = "abcdefghijk"
  /\ CleanedField = StrV("abcdefghij")

(* the fields of a dict and their values, whatever the order of the items *)
FieldsOf(items) ==
  [k \in {items[i].key : i \in DOMAIN items} |->
     (items[CHOOSE i \in DOMAIN items : items[i].key = k]).value]

(* C23: two records have the same digest exactly when they have the same  *)
(* fields with the same values: the order of the keys does not matter, and *)
(* a difference in the value of a field changes the digest.                *)
C23_DigestTellsRecordsApart ==
  probe.op = "hash" =>
    ((FieldsOf(probe.arg[1]) = FieldsOf(probe.arg[2]))
       <=> (probe.out[1] = probe.out[2]))

(* a record as normalisation leaves it: its date field holds a Timestamp  *)
(* or NaT                                                                  *)
DateTyped(items) == FieldsOf(items).declaration_date.k \in {"date", "nan"}

(* C23, amended: two records whose date field holds a Timestamp or NaT    *)
(* have the same digest exactly when they have the same fields with the    *)
(* same values, whatever the order of their keys.                          *)
C23_DigestTellsTypedRecordsApart ==
  (probe.op = "hash" /\ DateTyped(probe.arg[1]) /\ DateTyped(probe.arg[2])) =>
    ((FieldsOf(probe.arg[1]) = FieldsOf(probe.arg[2]))
       <=> (probe.out[1] = probe.out[2]))

(* the same two fields in opposite key orders, one digest *)
C23_Witness ==
  /\ probe.op = "hash"
  /\ DateTyped(probe.arg[1]) /\ DateTyped(probe.arg[2])
  /\ probe.arg[1] # probe.arg[2]
  /\ FieldsOf(probe.arg[1]) = FieldsOf(probe.arg[2])
  /\ probe.arg[1][1].key = "pw_number"
  /\ probe.arg[2][1].key = "declaration_date"
  /\ probe.out[1] = probe.out[2]

(* C24: in every row of fact_disaster_metrics the three bucketed counts   *)
(* add up to the group's total_projects, each project of the group being   *)
(* counted in the bucket of its amount.                                    *)
C24_BucketsAddUpToTotal ==
  \A m \in DOMAIN fact_disaster_metrics :
    m.small_projects + m.medium_projects + m.large_projects = m.total_projects

(* the load of a page has failed in the current run *)
LoadFailed == exc = "load" \/ caught = "load"

(* C26: once the load of a page has failed, nothing the run does until    *)
(* it ends changes public_assistance_projects, so the rows the earlier     *)
(* pages committed stay and the failed page's writes never reach the       *)
(* table; and no step of the load stage or of the FAILED handler changes   *)
(* the derived tables.                                                     *)
C26_PartialLoadPersists ==
  [][/\ (LoadFailed \/ exc' = "load") => table' = table
     /\ (stage \in {"load", "failed"} \/ LoadFailed) =>
          /\ fact_disaster_metrics' = fact_disaster_metrics
          /\ fact_project_samples' = fact_project_samples]_vars

(* a first run, started on an empty store, has ended after the load of a  *)
(* later page failed: the rows of the earlier page are in the table and    *)
(* the derived tables are still empty                                      *)
C26_Witness ==
  /\ pc = "done" /\ runs = 1 /\ caught = "load" /\ raised # ""
  /\ BagSize(table) > 0
  /\ fact_disaster_metrics = EmptyBag /\ fact_project_samples = EmptyBag
  /\ fact_disaster_metrics # SetToBag(MetricsQuery(table))

(* the run has ended and recorded COMPLETED *)
RunRecordedCompleted == pc = "done" /\ raised = "" /\ caught = ""

(* the (disaster_number, state_abbreviation) of a row *)
GroupOf(r) == <<r["disaster_number"], r["state_abbreviation"]>>

(* how many rows of the bag satisfy the test *)
CountWhere(bag, Test(_)) == BagSize([r \in {x \in DOMAIN bag : Test(x)} |-> bag[r]])

(* C27: when a run has recorded COMPLETED, fact_disaster_metrics has      *)
(* exactly one row for every (disaster_number, state_abbreviation) group   *)
(* of public_assistance_projects and no other row, its total_projects is   *)
(* the number of rows of the group, and fact_project_samples has exactly   *)
(* one row for every base row whose project_amount is not null.            *)
C27_DerivedAgreeWithBase ==
  RunRecordedCompleted =>
    /\ \A r \in DOMAIN table :
         \E m \in DOMAIN fact_disaster_metrics :
           /\ GroupOf(m) = GroupOf(r)
           /\ m.total_projects =
                CountWhere(table, LAMBDA x : GroupOf(x) = GroupOf(r))
    /\ \A m \in DOMAIN fact_disaster_metrics :
         /\ fact_disaster_metrics[m] = 1
         /\ \E r \in DOMAIN table : GroupOf(r) = GroupOf(m)
         /\ \A q \in DOMAIN fact_disaster_metrics : GroupOf(q) = GroupOf(m) => q = m
    /\ BagSize(fact_project_samples) =
         CountWhere(table, LAMBDA x : x["project_amount"] # None)
    /\ \A s \in DOMAIN fact_project_samples :
         fact_project_samples[s] =
           CountWhere(table, LAMBDA x :
             /\ x["project_amount"] # None
             /\ x["project_amount"] = s.project_amount
             /\ GroupOf(x) = GroupOf(s)
             /\ x["declaration_date"] = s.declaration_date
             /\ x["damage_category_descrip"] = s.damage_category
             /\ x["project_size"] = s.project_size)

(* a second run has recorded COMPLETED over a table holding a row with a  *)
(* null amount and a row with an amount: the first run's derived rows have *)
(* been replaced, not added to                                             *)
C27_Witness ==
  /\ RunRecordedCompleted /\ runs = 2
  /\ \E r \in DOMAIN table : r["project_amount"] = None
  /\ \E r \in DOMAIN table : r["project_amount"] # None
  /\ fact_disaster_metrics # EmptyBag
  /\ fact_project_samples # EmptyBag

StampColumns == {"created_at", "updated_at"}

(* the table as it would stand had the store filled both timestamps of    *)
(* every row                                                               *)
Stamped(t) ==
  LET Stamp(r) == [c \in DOMAIN r |->
                     IF c \in StampColumns THEN StrV("2024-01-01") ELSE r[c]]
  IN [q \in {Stamp(r) : r \in DOMAIN t} |->
        t[CHOOSE r \in DOMAIN t : Stamp(r) = q]]

(* the row is one the INSERT `s` conflicts with *)
HitBy(s, row) ==
  \E i \in DOMAIN s.params : SameKey(s.params[i].rec, row, Range(s.conflict))

(* C28: when the table has created_at and updated_at, the INSERT that     *)
(* batch_insert sends names both columns, leaves them out of the conflict  *)
(* key and gives them null in every record; sent to a table whose rows     *)
(* hold timestamps, it leaves every row it conflicts with with both        *)
(* timestamps null and every other stored row as it was.                   *)
C28_UpsertNullsTimestamps ==
  (LoadCommitted /\ sent # NoInsert /\ StampColumns \subseteq schema) =>
    /\ StampColumns \subseteq sent.columns \ Range(sent.conflict)
    /\ \A i \in DOMAIN sent.params, c \in StampColumns :
         sent.params[i].rec[c] = None
    /\ LET before == Stamped(table)
           after == LoadedAgain(before, sent)
       IN /\ \A r \in DOMAIN after :
               HitBy(sent, r) => \A c \in StampColumns : r[c] = None
          /\ \A r \in DOMAIN before :
               ~HitBy(sent, r) => r \in DOMAIN after /\ after[r] = before[r]

(* a committed load whose rows, once stamped, are all hit again *)
C28_Witness ==
  /\ LoadCommitted /\ sent # NoInsert /\ schema = FullSchema
  /\ BagSize(table) > 0
  /\ \A r \in DOMAIN Stamped(table) : HitBy(sent, r)
  /\ \A r \in DOMAIN LoadedAgain(Stamped(table), sent) : r["created_at"] = None

(* C29: in every row of fact_project_samples is_large_project is true     *)
(* exactly when amount_category is 'Large', whatever the amount.           *)
C29_SizeIndicatorsAgree ==
  probe.op = "samples" =>
    \A s \in DOMAIN probe.out :
      s.is_large_project <=> (s.amount_category = "Large")

(* the two indicators of a row disagree at most when its amount is the    *)
(* high threshold itself                                                   *)
IndicatorsAgreeOffThreshold ==
  probe.op = "samples" =>
    \A s \in DOMAIN probe.out :
      s.project_amount # IntV(HighThreshold) =>
        (s.is_large_project <=> (s.amount_category = "Large"))

(* the fetch loop goes round again *)
FetchesAgain == pc' = "fetch" /\ pc # "fetch" /\ runs' = runs

(* C25: every run that has started ends, whatever the source returns and  *)
(* whatever fails; the loop goes round again only after loading a full     *)
(* page and with the offset one page further, and an empty page sends the  *)
(* run to aggregation with no load; and a run in which no stage raised     *)
(* ends in its ledger stage, with aggregation behind it.                   *)
C25_RunTerminates ==
  /\ (pc = "fetch") ~> (pc = "done")
  /\ [][FetchesAgain =>
          /\ stage = "load" /\ exc = "" /\ DfLen(df) = page_size
          /\ offset' = offset + page_size
          /\ Len(loaded_pages') = Len(fetched)]_vars
  /\ [][(pc = "fetch" /\ pc' # "fetch" /\ DfEmpty(df')) =>
          stage' = "agg" /\ loaded_pages' = loaded_pages]_vars
  /\ [][(pc' = "done" /\ pc # "done" /\ caught = "") =>
          /\ stage = "ledger" /\ exc = ""
          /\ fact_disaster_metrics = SetToBag(MetricsQuery(table))]_vars

(* a source of exactly one full page: the second request returns the      *)
(* empty page and the loop has ended, one page loaded                      *)
C25_Witness ==
  /\ LoopHasReturned
  /\ Len(fetched) = 2
  /\ fetched[1].len = page_size /\ ~fetched[1].failed
  /\ fetched[2].len = 0 /\ ~fetched[2].failed
  /\ fetched[2].offset = page_size
  /\ Len(loaded_pages) = 1 /\ loaded_pages[1].inserted
====
